---- MODULE Spec2Model ----
(***************************************************************************)
(* Model of the steel-plant forecast service: the Forecaster of            *)
(* app/services/forecast.py (recency weighting, equal split, largest       *)
(* remainder allocation), the upload handlers of app/routers/upload.py     *)
(* (bulk replace inside one session transaction) and the forecast          *)
(* endpoint of app/routers/forecast.py.                                    *)
(*                                                                         *)
(* Numbers.  Tons are drawn from integers, for which the float sums of     *)
(* _process_product_group are exact.  The division and the multiplication  *)
(* of _distribute_proportionally are float operations: their result is    *)
(* the exact quotient w*T/W up to a last-bit rounding error.  The error is *)
(* modelled by a value of Noise per weighted total (the float result is a  *)
(* function of the operands, so equal weighted totals of one group get     *)
(* equal errors): negative is "just below the exact value", positive "just *)
(* above".  The error is 0 where the float result is exact (w = 0, T = 0,  *)
(* w = W).  All stored heats and tons are non-negative.                    *)
(* The errors describe weighted totals that are far apart relative to the  *)
(* spacing of the floats.  For totals as close as that spacing the same    *)
(* allocation loop is computed bit by bit in a binary format of            *)
(* MantissaBits significand bits (SpecFloat).                              *)
(***************************************************************************)
EXTENDS Integers, Sequences, FiniteSets, TLC

\* ---------------------------------------------------------------- bounds
MaxGrades == 3      \* grades of one group handed to the allocator
MaxTotal == 3       \* largest weighted total of one grade (allocator inputs)
MaxHeats == 6       \* largest forecast heats (allocator inputs)
MaxHist == 2        \* history records handed to the weighting step
MaxRecords == 2     \* records parsed from one uploaded file
MaxUploads == 1     \* upload requests after the initial store
MaxForecasts == 1   \* forecast requests
MaxCalls == 2       \* forecast requests on one unchanged store
MaxPair == 2        \* upload requests that arrive together
MantissaBits == 4   \* significand width of the narrow binary float format
FracBits == 12      \* the narrow format's smallest spacing is 2^-FracBits
MaxFloatTotal == 15 \* largest weighted total of one grade (narrow float inputs)
MaxFloatHeats == 7  \* largest forecast heats (narrow float inputs)

Noise == {-1, 0, 1}
Scale == Cardinality(Noise)

GradeNames == <<"A", "B", "C", "D", "E">>

\* ------------------------------------------------------------- variables
VARIABLES
    db,         \* the committed rows of the five tables
    up,         \* the upload request in flight or last answered, with its session
    calc,       \* the forecast request in flight or last answered
    uploads_started,        \* upload requests so far
    forecasts_requested,    \* forecast requests so far
    weigh,      \* one run of the weighting step: its inputs and its result
    alloc       \* one run of the allocator: its inputs and its result

vars == <<db, up, calc, uploads_started, forecasts_requested, weigh, alloc>>

service == <<db, up, calc, uploads_started, forecasts_requested>>

\* ------------------------------------------------ Forecaster, pure parts
MONTH_WEIGHTS == <<3, 2, 1>>

Date(y, m) == [year |-> y, month |-> m]

\* the year left out of the distance
months_ago_same_year(production_month, target_month) ==
    target_month.month - production_month.month

months_ago(production_month, target_month) ==
    (target_month.year - production_month.year) * 12
        + (target_month.month - production_month.month)

get_month_weight(production_month, target_month) ==
    IF months_ago(production_month, target_month) <= 0
       \/ months_ago(production_month, target_month) > Len(MONTH_WEIGHTS)
    THEN MONTH_WEIGHTS[Len(MONTH_WEIGHTS)]
    ELSE MONTH_WEIGHTS[months_ago(production_month, target_month)]

\* grade_weighted_totals is a dict: a sequence of (name, weighted_tons) in the
\* order in which the names were first inserted.
dict_has(d, k) == \E i \in 1..Len(d) : d[i].name = k

\* one dict entry per history record
dict_append(d, k, v) == Append(d, [name |-> k, weighted_tons |-> v])

dict_add(d, k, v) ==
    IF dict_has(d, k)
    THEN [i \in 1..Len(d) |->
            IF d[i].name = k
            THEN [name |-> k, weighted_tons |-> d[i].weighted_tons + v]
            ELSE d[i]]
    ELSE Append(d, [name |-> k, weighted_tons |-> v])

RECURSIVE weighted_totals(_, _, _)
weighted_totals(history, target_month, acc) ==
    IF history = <<>> THEN acc
    ELSE weighted_totals(
            Tail(history), target_month,
            dict_add(acc, Head(history).name,
                     Head(history).tons
                        * get_month_weight(Head(history).month, target_month)))

grade_weighted_totals(history, target_month) ==
    weighted_totals(history, target_month, <<>>)

RECURSIVE sum_totals(_)
sum_totals(d) ==
    IF d = <<>> THEN 0 ELSE Head(d).weighted_tons + sum_totals(Tail(d))

\* the remainder heats handed to the first grades
distribute_equally_all(grades, group_name, total_heats) ==
    [i \in 1..Len(grades) |->
        [grade |-> grades[i], product_group |-> group_name,
         heats |-> total_heats \div Len(grades)
                    + (IF i <= total_heats % Len(grades) THEN 1 ELSE 0)]]

distribute_equally(grades, group_name, total_heats) ==
    [i \in 1..Len(grades) |->
        [grade |-> grades[i], product_group |-> group_name,
         heats |-> total_heats \div Len(grades)]]

\* The float raw = (w / W) * T of one grade, as floored = int(raw) and
\* remainder = raw - floored.  The remainder is kept as an integer key that
\* orders like the float: Scale * (w*T mod W) + error, in units of 1/(Scale*W).
fl_error(w, W, T, fp) == IF w * T = 0 \/ w = W THEN 0 ELSE fp[w]

raw_below(w, W, T, fp) == (w * T) % W = 0 /\ fl_error(w, W, T, fp) < 0

raw_floored(w, W, T, fp) ==
    IF raw_below(w, W, T, fp) THEN (w * T) \div W - 1 ELSE (w * T) \div W

raw_remainder(w, W, T, fp) ==
    IF raw_below(w, W, T, fp)
    THEN Scale * W + fl_error(w, W, T, fp)
    ELSE Scale * ((w * T) % W) + fl_error(w, W, T, fp)

raw_allocations(grades, total_heats, group_weighted_total, fp) ==
    [i \in 1..Len(grades) |->
        [grade |-> grades[i].name,
         floored |-> raw_floored(grades[i].weighted_tons, group_weighted_total,
                                 total_heats, fp),
         remainder |-> raw_remainder(grades[i].weighted_tons,
                                     group_weighted_total, total_heats, fp)]]

RECURSIVE sum_floored(_)
sum_floored(allocations) ==
    IF allocations = <<>> THEN 0
    ELSE Head(allocations).floored + sum_floored(Tail(allocations))

\* list.sort(key=remainder, reverse=True): stable, so equal remainders keep
\* their order.  Position of element i in the sorted list.
\* a sort that is not stable: equal remainders in reverse order
sorted_position_unstable(allocations, i) ==
    1 + Cardinality({j \in 1..Len(allocations) :
            \/ allocations[j].remainder > allocations[i].remainder
            \/ /\ allocations[j].remainder = allocations[i].remainder
               /\ j > i})

\* a sort by remainder ascending
sorted_position_ascending(allocations, i) ==
    1 + Cardinality({j \in 1..Len(allocations) :
            \/ allocations[j].remainder < allocations[i].remainder
            \/ /\ allocations[j].remainder = allocations[i].remainder
               /\ j < i})

sorted_position(allocations, i) ==
    1 + Cardinality({j \in 1..Len(allocations) :
            \/ allocations[j].remainder > allocations[i].remainder
            \/ /\ allocations[j].remainder = allocations[i].remainder
               /\ j < i})

sort_by_remainder(allocations) ==
    [p \in 1..Len(allocations) |->
        allocations[CHOOSE i \in 1..Len(allocations) :
                        sorted_position(allocations, i) = p]]

leftover_heats(allocations, total_heats) == total_heats - sum_floored(allocations)

\* the leftover heats handed to no grade
distribute_floored(totals, group_name, total_heats, group_weighted_total, fp) ==
    LET allocations == raw_allocations(totals, total_heats, group_weighted_total, fp)
        sorted == sort_by_remainder(allocations)
    IN  [i \in 1..Len(sorted) |->
            [grade |-> sorted[i].grade, product_group |-> group_name,
             heats |-> sorted[i].floored]]

\* the equal-weight variant: every grade but the last gets its rounded share,
\* the last grade gets what is left of the target
rounded_share(w, W, T) == (2 * w * T + W) \div (2 * W)

RECURSIVE rounded_before(_, _, _, _)
rounded_before(totals, W, T, k) ==
    IF k = 0 THEN 0
    ELSE rounded_share(totals[k].weighted_tons, W, T) + rounded_before(totals, W, T, k - 1)

distribute_rounded(totals, group_name, total_heats, group_weighted_total, fp) ==
    [i \in 1..Len(totals) |->
        [grade |-> totals[i].name, product_group |-> group_name,
         heats |-> IF i < Len(totals)
                   THEN rounded_share(totals[i].weighted_tons, group_weighted_total,
                                      total_heats)
                   ELSE total_heats - rounded_before(totals, group_weighted_total,
                                                     total_heats, Len(totals) - 1)]]

\* the whole leftover handed to the grade with the largest remainder
distribute_leftover_to_first(totals, group_name, total_heats, group_weighted_total, fp) ==
    LET allocations == raw_allocations(totals, total_heats, group_weighted_total, fp)
        leftover == leftover_heats(allocations, total_heats)
        sorted == sort_by_remainder(allocations)
    IN  [i \in 1..Len(sorted) |->
            [grade |-> sorted[i].grade, product_group |-> group_name,
             heats |-> sorted[i].floored + (IF i = 1 THEN leftover ELSE 0)]]

distribute_proportionally(totals, group_name, total_heats, group_weighted_total, fp) ==
    LET allocations == raw_allocations(totals, total_heats, group_weighted_total, fp)
        leftover == leftover_heats(allocations, total_heats)
        sorted == sort_by_remainder(allocations)
    IN  [i \in 1..Len(sorted) |->
            [grade |-> sorted[i].grade, product_group |-> group_name,
             heats |-> sorted[i].floored + (IF i - 1 < leftover THEN 1 ELSE 0)]]

\* ------------------------------------------- binary floating point, narrow
\* Python's float is IEEE binary64: 53 significand bits, round to nearest,
\* ties to even.  Two weighted totals that differ in their last bits can have
\* the same (w / W) * T.  The format below is the same arithmetic with
\* MantissaBits significand bits, so that this happens at small values.  A
\* float is the integer number of units of 2^-FracBits it holds.
RECURSIVE Pow2(_)
Pow2(k) == IF k = 0 THEN 1 ELSE 2 * Pow2(k - 1)

Unit == Pow2(FracBits)

\* spacing of the floats around a / b units
RECURSIVE float_spacing(_, _, _)
float_spacing(a, b, u) ==
    IF a >= b * Pow2(MantissaBits) * u THEN float_spacing(a, b, 2 * u) ELSE u

round_half_even(a, b) ==
    LET m == a \div b
        r == 2 * (a % b)
    IN  IF r > b \/ (r = b /\ m % 2 = 1) THEN m + 1 ELSE m

\* the float nearest to a / b units
float_round(a, b) ==
    LET u == float_spacing(a, b, 1) IN round_half_even(a, b * u) * u

\* float(n) of an int n >= 0
float_of(n) == float_round(n * Unit, 1)

float_add(x, y) == float_round(x + y, 1)

float_div(x, y) == float_round(x * Unit, y)

float_mul(x, y) == float_round(x * y, Unit)

\* x - y for floats x >= y
float_sub(x, y) == float_round(x - y, 1)

\* int(x) of a float x >= 0
float_int(x) == x \div Unit

\* sum(d.values()) of floats, added left to right from the int 0
RECURSIVE float_sum_from(_, _)
float_sum_from(acc, d) ==
    IF d = <<>> THEN acc
    ELSE float_sum_from(float_add(acc, float_of(Head(d).weighted_tons)), Tail(d))

\* sum() of CPython 3.12 and later: compensated, the exact sum rounded once
float_sum_compensated(d) == float_round(sum_totals(d) * Unit, 1)

float_sum(d, summation) ==
    IF summation = "compensated" THEN float_sum_compensated(d)
    ELSE float_sum_from(0, d)

\* the allocations loop in the narrow format; remainder in units
float_allocations(grades, total_heats, group_weighted_total) ==
    [i \in 1..Len(grades) |->
        LET ratio == float_div(float_of(grades[i].weighted_tons), group_weighted_total)
            raw == float_mul(ratio, float_of(total_heats))
            floored == float_int(raw)
        IN  [grade |-> grades[i].name, floored |-> floored,
             remainder |-> float_sub(raw, float_of(floored)), raw |-> raw]]

distribute_proportionally_float(totals, group_name, total_heats, group_weighted_total) ==
    LET allocations == float_allocations(totals, total_heats, group_weighted_total)
        leftover == leftover_heats(allocations, total_heats)
        sorted == sort_by_remainder(allocations)
    IN  [i \in 1..Len(sorted) |->
            [grade |-> sorted[i].grade, product_group |-> group_name,
             heats |-> sorted[i].floored + (IF i - 1 < leftover THEN 1 ELSE 0)]]

\* Lines 87-96 of _process_product_group in the narrow format.
process_totals_float(totals, group_name, total_heats, summation) ==
    IF float_sum(totals, summation) = 0
    THEN distribute_equally([i \in 1..Len(totals) |-> totals[i].name],
                            group_name, total_heats)
    ELSE distribute_proportionally_float(totals, group_name, total_heats,
                                         float_sum(totals, summation))

\* Lines 87-96 of _process_product_group: equal split or proportional split.
process_totals(totals, group_name, total_heats, fp) ==
    IF sum_totals(totals) = 0
    THEN distribute_equally([i \in 1..Len(totals) |-> totals[i].name],
                            group_name, total_heats)
    ELSE distribute_proportionally(totals, group_name, total_heats,
                                   sum_totals(totals), fp)

\* Lines 75-96 of _process_product_group: history rows to grade forecasts.
distribute(history, group_name, total_heats, target_month, fp) ==
    IF history = <<>> THEN <<>>
    ELSE process_totals(grade_weighted_totals(history, target_month),
                        group_name, total_heats, fp)

\* ------------------------------------------------------ the record store
\* A table is the sequence of its rows in insertion order.  Product groups
\* and steel grades are never deleted, so a row's id is its position.
EmptyDb ==
    [product_groups |-> <<>>, steel_grades |-> <<>>, monthly_forecasts |-> <<>>,
     production_history |-> <<>>, daily_schedules |-> <<>>]

has_name(table, name) == \E i \in 1..Len(table) : table[i].name = name

\* query(...).filter(name == name).first(), for a name that is present
id_of_name(table, name) ==
    CHOOSE i \in 1..Len(table) :
        /\ table[i].name = name
        /\ \A j \in 1..(i - 1) : table[j].name # name

\* a product group created for every record, whatever is stored
create_product_group(s, name) ==
    [s EXCEPT !.product_groups = Append(@, [name |-> name])]

get_or_create_product_group(s, name) ==
    IF has_name(s.product_groups, name) THEN s
    ELSE [s EXCEPT !.product_groups = Append(@, [name |-> name])]

\* a stored grade moved to the product group of the record
get_or_create_steel_grade_reassign(s, name, product_group_id) ==
    IF has_name(s.steel_grades, name)
    THEN [s EXCEPT !.steel_grades =
            [i \in 1..Len(@) |->
                IF @[i].name = name
                THEN [name |-> name, product_group_id |-> product_group_id]
                ELSE @[i]]]
    ELSE [s EXCEPT !.steel_grades =
            Append(@, [name |-> name, product_group_id |-> product_group_id])]

get_or_create_steel_grade(s, name, product_group_id) ==
    IF has_name(s.steel_grades, name) THEN s
    ELSE [s EXCEPT !.steel_grades =
            Append(@, [name |-> name, product_group_id |-> product_group_id])]

PRODUCT_GROUP_MAPPING ==
    <<[group |-> "Rebar", grades |-> {"B500A", "B500B", "B500C"}],
      [group |-> "MBQ", grades |-> {"A36", "A5888", "GR50", "44W", "50W", "55W", "60W"}],
      [group |-> "SBQ", grades |-> {"S235JR", "S355J", "C35", "C40"}],
      [group |-> "CHQ", grades |-> {"A53/A543", "A53/C591", "A53/C592", "A53/C593",
                                    "A53/C594", "A53/C595", "A53/C596", "A53/C597",
                                    "A53/C598", "A53/C599", "A53/C600"}]>>

\* Parser.get_product_group_for_grade, with "Unknown" for None (the else
\* branch of upload_daily_schedule)
get_product_group_for_grade(grade) ==
    IF \E i \in 1..Len(PRODUCT_GROUP_MAPPING) : grade \in PRODUCT_GROUP_MAPPING[i].grades
    THEN PRODUCT_GROUP_MAPPING[
            CHOOSE i \in 1..Len(PRODUCT_GROUP_MAPPING) :
                /\ grade \in PRODUCT_GROUP_MAPPING[i].grades
                /\ \A j \in 1..(i - 1) : grade \notin PRODUCT_GROUP_MAPPING[j].grades].group
    ELSE "Unknown"

\* no delete: the upload is merged into the stored rows
delete_none(s, kind) == s

\* db.query(Table).delete() of the three handlers
delete_all(s, kind) ==
    CASE kind = "monthly-forecast" -> [s EXCEPT !.monthly_forecasts = <<>>]
      [] kind = "production-history" -> [s EXCEPT !.production_history = <<>>]
      [] kind = "daily-schedule" -> [s EXCEPT !.daily_schedules = <<>>]

\* One pass of the loop body of upload_monthly_forecast
add_forecast(s, record) ==
    LET s1 == get_or_create_product_group(s, record.product_group)
    IN  [s1 EXCEPT !.monthly_forecasts =
            Append(@, [product_group_id |->
                            id_of_name(s1.product_groups, record.product_group),
                       month |-> record.month, heats |-> record.heats])]

\* One pass of the loop body of upload_production_history
add_history(s, record) ==
    LET s1 == get_or_create_product_group(s, record.product_group)
        s2 == get_or_create_steel_grade(
                s1, record.grade,
                id_of_name(s1.product_groups, record.product_group))
    IN  [s2 EXCEPT !.production_history =
            Append(@, [steel_grade_id |-> id_of_name(s2.steel_grades, record.grade),
                       month |-> record.month, tons |-> record.tons])]

\* One pass of the loop body of upload_daily_schedule
add_schedule(s, record) ==
    LET s1 == get_or_create_product_group(s, get_product_group_for_grade(record.grade))
        s2 == get_or_create_steel_grade(
                s1, record.grade,
                id_of_name(s1.product_groups, get_product_group_for_grade(record.grade)))
    IN  [s2 EXCEPT !.daily_schedules =
            Append(@, [steel_grade_id |-> id_of_name(s2.steel_grades, record.grade)])]

add_record(s, kind, record) ==
    CASE kind = "monthly-forecast" -> add_forecast(s, record)
      [] kind = "production-history" -> add_history(s, record)
      [] kind = "daily-schedule" -> add_schedule(s, record)

RECURSIVE add_records(_, _, _)
add_records(s, kind, records) ==
    IF records = <<>> THEN s
    ELSE add_records(add_record(s, kind, Head(records)), kind, Tail(records))

\* The session of an upload after the delete and the first k passes of the
\* loop: flushed, not committed.
session_after(committed, kind, records, k) ==
    add_records(delete_all(committed, kind), kind, SubSeq(records, 1, k))

\* the session's rows kept on a failure
rollback_keeps_session(committed, session) == session

\* db.commit() makes the session's rows the committed rows; db.rollback()
\* drops them.
commit(committed, session) == session

rollback(committed, session) == committed

\* ------------------------------------------------ Forecaster, queries
\* query(MonthlyForecast).join(ProductGroup).filter(month == target_month)
\* the filter on the month left out
query_forecasts_any_month(rows, target_month) == rows

RECURSIVE query_forecasts(_, _)
query_forecasts(rows, target_month) ==
    IF rows = <<>> THEN <<>>
    ELSE IF Head(rows).month = target_month
    THEN <<Head(rows)>> \o query_forecasts(Tail(rows), target_month)
    ELSE query_forecasts(Tail(rows), target_month)

\* query(SteelGrade.name, ProductionHistory.month, ProductionHistory.tons)
\*   .join(ProductionHistory).filter(SteelGrade.product_group_id == group_id)
\* the filter on the product group left out of the join
RECURSIVE join_history_any_group(_, _, _)
join_history_any_group(rows, steel_grades, group_id) ==
    IF rows = <<>> THEN <<>>
    ELSE <<[name |-> steel_grades[Head(rows).steel_grade_id].name,
            month |-> Head(rows).month, tons |-> Head(rows).tons]>>
         \o join_history_any_group(Tail(rows), steel_grades, group_id)

RECURSIVE join_history(_, _, _)
join_history(rows, steel_grades, group_id) ==
    IF rows = <<>> THEN <<>>
    ELSE IF steel_grades[Head(rows).steel_grade_id].product_group_id = group_id
    THEN <<[name |-> steel_grades[Head(rows).steel_grade_id].name,
            month |-> Head(rows).month, tons |-> Head(rows).tons]>>
         \o join_history(Tail(rows), steel_grades, group_id)
    ELSE join_history(Tail(rows), steel_grades, group_id)

query_history(d, group_id) ==
    join_history(d.production_history, d.steel_grades, group_id)

\* _process_product_group on the committed rows d
process_product_group(d, forecast, target_month, fp) ==
    distribute(query_history(d, forecast.product_group_id),
               d.product_groups[forecast.product_group_id].name,
               forecast.heats, target_month, fp)

\* The branch _process_product_group takes on the committed rows d
path_taken(d, forecast, target_month) ==
    IF query_history(d, forecast.product_group_id) = <<>> THEN "skipped"
    ELSE IF sum_totals(grade_weighted_totals(
                query_history(d, forecast.product_group_id), target_month)) = 0
    THEN "equal"
    ELSE "proportional"

\* every month is answered
AVAILABLE_FORECASTS_all == {<<2023, 9>>, <<2024, 9>>, <<2024, 10>>}

AVAILABLE_FORECASTS == {<<2024, 9>>}

\* results of the previous call kept
results_kept(previous) == previous

\* results = [] at the start of calculate
initial_results(previous) == <<>>

\* ------------------------------------------------------- bounded inputs
SeqsUpTo(S, n) == UNION {[1..k -> S] : k \in 0..n}

TargetMonths == {Date(2024, 9), Date(2024, 1)}

ProductionMonths ==
    {Date(2023, 9), Date(2023, 11), Date(2023, 12), Date(2024, 1)}
        \cup {Date(2024, m) : m \in 5..10}

TonsValues == {0, 10, 30}

HistoryRows ==
    [name : {"A", "B"}, month : ProductionMonths, tons : TonsValues]

\* The dict handed to the allocator: n distinct names, enumerated either in
\* alphabetical order or in reverse alphabetical order.
NameOrders(n) ==
    {[i \in 1..n |-> GradeNames[i]], [i \in 1..n |-> GradeNames[n + 1 - i]]}

TotalsDicts ==
    UNION {{[i \in 1..n |-> [name |-> names[i], weighted_tons |-> w[i]]] :
                names \in NameOrders(n), w \in [1..n -> 0..MaxTotal]} :
           n \in 1..MaxGrades}

TotalValues(totals) == {totals[i].weighted_tons : i \in 1..Len(totals)}

NoWeigh == [history |-> <<>>, target_month |-> Date(2024, 9),
            totals |-> <<>>, done |-> FALSE]

NoAlloc == [totals |-> <<>>, total_heats |-> 0, fp |-> <<>>,
            results |-> <<>>, done |-> FALSE]

\* ------------------------------------------------- the service: inputs
Groups == {"Rebar", "MBQ"}

Sep2024 == Date(2024, 9)

ForecastRecords ==
    [product_group : Groups, month : {Sep2024, Date(2024, 10)}, heats : {2, 3}]

HistoryRecords ==
    [product_group : Groups, grade : {"B500A", "A36"},
     month : {Date(2024, 8), Date(2024, 6)}, tons : {0, 1}]

ScheduleRecords == [grade : {"A36", "X70"}]

Kinds == {"monthly-forecast", "production-history", "daily-schedule"}

\* What a parse can return: up to MaxRecords records of the file's kind
ForecastFiles == SeqsUpTo(ForecastRecords, MaxRecords) \ {<<>>}

HistoryFiles == SeqsUpTo(HistoryRecords, MaxRecords) \ {<<>>}

ScheduleFiles == SeqsUpTo(ScheduleRecords, MaxRecords) \ {<<>>}

Files(kind) ==
    CASE kind = "monthly-forecast" -> ForecastFiles
      [] kind = "production-history" -> HistoryFiles
      [] kind = "daily-schedule" -> ScheduleFiles

ForecastRequests == {<<2023, 9>>, <<2024, 9>>, <<2024, 10>>}

\* A whole successful upload on the committed rows
uploaded(committed, kind, records) ==
    commit(committed, session_after(committed, kind, records, Len(records)))

FR(g, h) == [product_group |-> g, month |-> Sep2024, heats |-> h]

HR(g, n, m, t) ==
    [product_group |-> g, grade |-> n, month |-> Date(2024, m), tons |-> t]

\* The stores the service starts from: the empty store, and the stores left by
\* one monthly-forecast upload followed by one production-history upload.
InitialForecasts == {<<FR("Rebar", 3), FR("MBQ", 3)>>}

InitialHistories ==
    {<<HR("Rebar", "B500A", 8, 1), HR("MBQ", "A36", 6, 1)>>,
     <<HR("Rebar", "B500A", 8, 1), HR("Rebar", "A36", 6, 1)>>,
     <<HR("Rebar", "B500A", 8, 1)>>}

InitialStores ==
    {EmptyDb}
    \cup {uploaded(uploaded(EmptyDb, "monthly-forecast", f), "production-history", h) :
            f \in InitialForecasts, h \in InitialHistories}

NoUpload ==
    [kind |-> "none", records |-> <<>>, processed |-> 0, session |-> EmptyDb,
     state |-> "none", status_code |-> 0, detail |-> "", before |-> EmptyDb,
     log |-> <<>>]

NoCalc ==
    [state |-> "idle", status_code |-> 0, detail |-> "", target_month |-> Sep2024,
     forecasts |-> <<>>, next |-> 1, results |-> <<>>, parts |-> <<>>, seen |-> {},
     calls |-> <<>>, rounding |-> {}]

\* The float raw = (w / W) * T is a function of its three operands: the
\* rounding error of one (w, W, T) is the same in every call.  rounding is
\* the set of the errors that calls have had so far.
fl_errors(totals, T, fp) ==
    [w \in TotalValues(totals) |-> fl_error(w, sum_totals(totals), T, fp)]

roundings(totals, T, fp) ==
    {[w |-> w, W |-> sum_totals(totals), T |-> T,
      error |-> fl_error(w, sum_totals(totals), T, fp)] : w \in TotalValues(totals)}

rounds_as_before(rounding, totals, T, fp) ==
    \A r \in rounding, q \in roundings(totals, T, fp) :
        (r.w = q.w /\ r.W = q.W /\ r.T = q.T) => r.error = q.error

\* The answer of an upload request, as kept in the log of answered uploads
answer(kind, records, status_code) ==
    [kind |-> kind, records |-> records, status_code |-> status_code]

\* the delete run before the checks of the file name and of the parse
rejected_after_delete(committed, kind) == delete_all(committed, kind)

\* The committed rows after a handler raised HTTPException(400): the checks of
\* the file name and of the parsed records come before the delete.
rejected(committed, kind) == committed

\* ------------------------------------------------ the service: actions
Init ==
    /\ db \in InitialStores
    /\ up = NoUpload
    /\ calc = NoCalc
    /\ uploads_started = 0
    /\ forecasts_requested = 0
    /\ weigh = NoWeigh
    /\ alloc = NoAlloc

\* An upload handler answers 400 before it touches the session: the file name
\* is no Excel name, or the parse returns no records.
UploadRejected(kind, detail) ==
    /\ up.state # "open"
    /\ uploads_started' = uploads_started + 1
    /\ db' = rejected(db, kind)
    /\ up' = [kind |-> kind, records |-> <<>>, processed |-> 0, session |-> EmptyDb,
              state |-> "done", status_code |-> 400, detail |-> detail,
              before |-> db, log |-> Append(up.log, answer(kind, <<>>, 400))]
    /\ calc' = IF calc.state = "running"
               THEN [calc EXCEPT !.seen = @ \cup {db'}] ELSE calc
    /\ UNCHANGED <<forecasts_requested, weigh, alloc>>

\* An upload handler parses records, deletes the rows of its kind and runs the
\* first k passes of its loop (all of them, unless a pass raises).
UploadBegin(kind, records, k) ==
    /\ up.state # "open"
    /\ uploads_started' = uploads_started + 1
    /\ up' = [kind |-> kind, records |-> records, processed |-> k,
              session |-> session_after(db, kind, records, k),
              state |-> "open", status_code |-> 0, detail |-> "", before |-> db,
              log |-> up.log]
    /\ UNCHANGED <<db, calc, forecasts_requested, weigh, alloc>>

\* db.commit() and the success response
UploadCommit ==
    /\ up.state = "open"
    /\ up.processed = Len(up.records)
    /\ db' = commit(db, up.session)
    /\ up' = [up EXCEPT !.state = "done", !.status_code = 200, !.session = EmptyDb,
                        !.log = Append(@, answer(up.kind, up.records, 200))]
    /\ calc' = IF calc.state = "running"
               THEN [calc EXCEPT !.seen = @ \cup {db'}] ELSE calc
    /\ UNCHANGED <<uploads_started, forecasts_requested, weigh, alloc>>

\* except Exception: db.rollback() and the 500 response (a loop pass or the
\* commit raised)
UploadFail ==
    /\ up.state = "open"
    /\ db' = rollback(db, up.session)
    /\ up' = [up EXCEPT !.state = "done", !.status_code = 500, !.session = EmptyDb,
                        !.log = Append(@, answer(up.kind, up.records, 500))]
    /\ calc' = IF calc.state = "running"
               THEN [calc EXCEPT !.seen = @ \cup {db'}] ELSE calc
    /\ UNCHANGED <<uploads_started, forecasts_requested, weigh, alloc>>

\* An upload handler whose delete finds the database locked by the open
\* transaction of another upload and gives up: the delete raises, the handler
\* rolls back and answers 500.  (A delete that waits for the lock instead is
\* UploadBegin once the other upload has ended.)
UploadBusy(kind, records) ==
    /\ up.state = "open"
    /\ uploads_started' = uploads_started + 1
    /\ db' = rollback(db, delete_all(db, kind))
    /\ up' = [up EXCEPT !.log = Append(@, answer(kind, records, 500))]
    /\ calc' = IF calc.state = "running"
               THEN [calc EXCEPT !.seen = @ \cup {db'}] ELSE calc
    /\ UNCHANGED <<forecasts_requested, weigh, alloc>>

\* get_forecast for a month that is not available
GetForecastRejected(year, month) ==
    /\ calc.state # "running"
    /\ <<year, month>> \notin AVAILABLE_FORECASTS
    /\ forecasts_requested' = forecasts_requested + 1
    /\ calc' = [NoCalc EXCEPT !.state = "done", !.status_code = 400,
                              !.detail = "not available",
                              !.target_month = Date(year, month),
                              !.calls = calc.calls, !.rounding = calc.rounding]
    /\ UNCHANGED <<db, up, uploads_started, weigh, alloc>>

\* get_forecast up to the first query of calculate
GetForecast(year, month) ==
    /\ calc.state # "running"
    /\ <<year, month>> \in AVAILABLE_FORECASTS
    /\ forecasts_requested' = forecasts_requested + 1
    /\ calc' = [NoCalc EXCEPT
                    !.state = "running",
                    !.target_month = Date(year, month),
                    !.results = initial_results(calc.results),
                    !.forecasts = query_forecasts(db.monthly_forecasts,
                                                  Date(year, month)),
                    !.seen = {db},
                    !.calls = calc.calls, !.rounding = calc.rounding]
    /\ UNCHANGED <<db, up, uploads_started, weigh, alloc>>

\* One pass of the loop of calculate: _process_product_group, with its own
\* query of the committed rows
ProcessProductGroup ==
    /\ calc.state = "running"
    /\ calc.next <= Len(calc.forecasts)
    /\ LET forecast == calc.forecasts[calc.next]
           totals == grade_weighted_totals(
                        query_history(db, forecast.product_group_id),
                        calc.target_month)
       IN  \E fp \in [TotalValues(totals) -> Noise] :
             /\ rounds_as_before(calc.rounding, totals, forecast.heats, fp)
             /\ calc' = [calc EXCEPT
                    !.next = @ + 1,
                    !.results = @ \o process_product_group(
                                        db, forecast, calc.target_month, fp),
                    !.parts = Append(@,
                        [forecast |-> forecast,
                         path |-> path_taken(db, forecast, calc.target_month),
                         entries |-> process_product_group(
                                        db, forecast, calc.target_month, fp),
                         fp |-> fl_errors(totals, forecast.heats, fp)]),
                    !.rounding = @ \cup roundings(totals, forecast.heats, fp)]
    /\ UNCHANGED <<db, up, uploads_started, forecasts_requested, weigh, alloc>>

\* calculate returns and get_forecast answers
ForecastReturn ==
    /\ calc.state = "running"
    /\ calc.next > Len(calc.forecasts)
    /\ calc' = [calc EXCEPT
                    !.state = "done", !.status_code = 200,
                    !.calls = Append(@, [target_month |-> calc.target_month,
                                         results |-> calc.results,
                                         seen |-> calc.seen])]
    /\ UNCHANGED <<db, up, uploads_started, forecasts_requested, weigh, alloc>>

Next ==
    \/ /\ uploads_started < MaxUploads
       /\ \E kind \in Kinds, detail \in {"Invalid file type", "No valid records"} :
            UploadRejected(kind, detail)
    \/ /\ uploads_started < MaxUploads
       /\ \E kind \in Kinds : \E records \in Files(kind) :
            \E k \in 0..Len(records) : UploadBegin(kind, records, k)
    \/ UploadCommit
    \/ UploadFail
    \/ /\ forecasts_requested < MaxForecasts
       /\ \E r \in ForecastRequests : GetForecastRejected(r[1], r[2])
    \/ /\ forecasts_requested < MaxForecasts
       /\ \E r \in ForecastRequests : GetForecast(r[1], r[2])
    \/ ProcessProductGroup
    \/ ForecastReturn

Spec == Init /\ [][Next]_vars

\* ------------------------------------- upload requests that arrive together
PairKinds == {"monthly-forecast", "production-history"}

PairForecastRecords == [product_group : Groups, month : {Sep2024}, heats : {2, 3}]

PairHistoryRecords ==
    [product_group : {"Rebar"}, grade : {"B500A", "A36"},
     month : {Date(2024, 8)}, tons : {0, 1}]

PairFiles(kind) ==
    CASE kind = "monthly-forecast" -> SeqsUpTo(PairForecastRecords, MaxRecords) \ {<<>>}
      [] kind = "production-history" -> SeqsUpTo(PairHistoryRecords, MaxRecords) \ {<<>>}

NextPair ==
    \/ /\ uploads_started < MaxPair
       /\ \E kind \in PairKinds : \E records \in PairFiles(kind) :
            \E k \in 0..Len(records) : UploadBegin(kind, records, k)
    \/ /\ uploads_started < MaxPair
       /\ up.state = "open"
       /\ \E kind \in PairKinds : \E records \in PairFiles(kind) :
            UploadBusy(kind, records)
    \/ UploadCommit
    \/ UploadFail

SpecPair == Init /\ [][NextPair]_vars

\* ------------------------- forecast requests on an unchanged store
\* The stores left by one more upload on an initial store
RepeatStores ==
    InitialStores
    \cup {uploaded(d, "monthly-forecast", f) : d \in InitialStores, f \in ForecastFiles}
    \cup {uploaded(d, "production-history", h) : d \in InitialStores, h \in HistoryFiles}

InitRepeat ==
    /\ db \in RepeatStores
    /\ up = NoUpload
    /\ calc = NoCalc
    /\ uploads_started = 0
    /\ forecasts_requested = 0
    /\ weigh = NoWeigh
    /\ alloc = NoAlloc

NextRepeat ==
    \/ /\ forecasts_requested < MaxCalls
       /\ \E r \in ForecastRequests : GetForecast(r[1], r[2])
    \/ ProcessProductGroup
    \/ ForecastReturn

SpecRepeat == InitRepeat /\ [][NextRepeat]_vars

\* ------------------------------------- the weighting step on its own
InitWeight ==
    /\ \E h \in SeqsUpTo(HistoryRows, MaxHist), t \in TargetMonths :
            weigh = [history |-> h, target_month |-> t,
                     totals |-> <<>>, done |-> FALSE]
    /\ alloc = NoAlloc
    /\ db = EmptyDb /\ up = NoUpload /\ calc = NoCalc
    /\ uploads_started = 0 /\ forecasts_requested = 0

Weigh ==
    /\ ~weigh.done
    /\ weigh' = [weigh EXCEPT
                    !.totals = grade_weighted_totals(weigh.history,
                                                     weigh.target_month),
                    !.done = TRUE]
    /\ UNCHANGED <<alloc, service>>

SpecWeight == InitWeight /\ [][Weigh]_vars

\* --------------------------------------- the allocator on its own
\* Operands for which IEEE double arithmetic gives a raw just below the exact
\* integer share: (1 / 49) * 49, (16 / 49) * 49 and (32 / 49) * 49 are
\* 0.9999999999999999, 15.999999999999998 and 31.999999999999996.
MeasuredRuns ==
    {[totals |-> <<[name |-> "A", weighted_tons |-> 1],
                   [name |-> "B", weighted_tons |-> 16],
                   [name |-> "C", weighted_tons |-> 32]>>,
      total_heats |-> 49,
      fp |-> (1 :> -1 @@ 16 :> -1 @@ 32 :> -1),
      results |-> <<>>, done |-> FALSE]}

InitAlloc ==
    /\ \/ \E d \in TotalsDicts, t \in 0..MaxHeats :
            \E fp \in [TotalValues(d) \ {0} -> Noise] :
                alloc = [totals |-> d, total_heats |-> t, fp |-> fp,
                         results |-> <<>>, done |-> FALSE]
       \/ alloc \in MeasuredRuns
    /\ weigh = NoWeigh
    /\ db = EmptyDb /\ up = NoUpload /\ calc = NoCalc
    /\ uploads_started = 0 /\ forecasts_requested = 0

Allocate ==
    /\ ~alloc.done
    /\ alloc' = [alloc EXCEPT
                    !.results = process_totals(alloc.totals, "Rebar",
                                               alloc.total_heats, alloc.fp),
                    !.done = TRUE]
    /\ UNCHANGED <<weigh, service>>

SpecAlloc == InitAlloc /\ [][Allocate]_vars

\* ----------------------- the allocator on its own, narrow float arithmetic
FloatTotalsDicts(n) ==
    {[i \in 1..n |-> [name |-> GradeNames[i], weighted_tons |-> w[i]]] :
        w \in [1..n -> 0..MaxFloatTotal]}

Summations == {"sequential", "compensated"}

InitFloat ==
    /\ \E n \in 1..MaxGrades :
       \E d \in FloatTotalsDicts(n), t \in 0..MaxFloatHeats, s \in Summations :
            alloc = [totals |-> d, total_heats |-> t, summation |-> s,
                     results |-> <<>>, done |-> FALSE]
    /\ weigh = NoWeigh
    /\ db = EmptyDb /\ up = NoUpload /\ calc = NoCalc
    /\ uploads_started = 0 /\ forecasts_requested = 0

AllocateFloat ==
    /\ ~alloc.done
    /\ alloc' = [alloc EXCEPT
                    !.results = process_totals_float(alloc.totals, "Rebar",
                                    alloc.total_heats, alloc.summation),
                    !.done = TRUE]
    /\ UNCHANGED <<weigh, service>>

SpecFloat == InitFloat /\ [][AllocateFloat]_vars

\* ------------------------------------------------------------ properties
RECURSIVE total_heats_of(_)
total_heats_of(entries) ==
    IF entries = <<>> THEN 0 ELSE Head(entries).heats + total_heats_of(Tail(entries))

EntriesOf(entries, grade) == {i \in 1..Len(entries) : entries[i].grade = grade}

HeatsOf(entries, grade) == entries[CHOOSE i \in 1..Len(entries) : entries[i].grade = grade].heats

OneEntryPerGrade(entries, totals) ==
    /\ Len(entries) = Len(totals)
    /\ \A i \in 1..Len(totals) : Cardinality(EntriesOf(entries, totals[i].name)) = 1

AllocRaw ==
    raw_allocations(alloc.totals, alloc.total_heats, sum_totals(alloc.totals), alloc.fp)

AllocExtra(i) == HeatsOf(alloc.results, alloc.totals[i].name) - AllocRaw[i].floored

Proportional == alloc.done /\ sum_totals(alloc.totals) > 0

EqualSplit == alloc.done /\ sum_totals(alloc.totals) = 0

\* C1: in the proportional path (target T >= 0, weighted totals non-negative
\* and not all zero) the heats returned for the group sum to exactly T.
C1_ProportionalSumsToTarget ==
    Proportional => total_heats_of(alloc.results) = alloc.total_heats

\* a proportional run of three grades in which the floors fall short of T
C1_Witness ==
    /\ Proportional
    /\ Len(alloc.totals) = 3
    /\ sum_floored(AllocRaw) < alloc.total_heats
    /\ total_heats_of(alloc.results) = alloc.total_heats

\* C3: largest remainder.  Each grade gets floor(raw), raw = (w / W) * T, and
\* exactly the first leftover = T - sum(floor(raw)) grades in the order
\* "remainder descending, ties in enumeration order" get one heat more; weighted
\* totals A=100, B=100, C=50 with T=7 give A=3, B=3, C=1.
C3_Example ==
    \A fp \in [{100, 50} -> Noise] :
        LET r == distribute_proportionally(
                    <<[name |-> "A", weighted_tons |-> 100],
                      [name |-> "B", weighted_tons |-> 100],
                      [name |-> "C", weighted_tons |-> 50]>>, "Rebar", 7, 250, fp)
        IN  HeatsOf(r, "A") = 3 /\ HeatsOf(r, "B") = 3 /\ HeatsOf(r, "C") = 1

C3_LargestRemainder ==
    /\ C3_Example
    /\ Proportional =>
        /\ OneEntryPerGrade(alloc.results, alloc.totals)
        /\ \A i \in 1..Len(alloc.totals) :
            \* floored is the floor of the float raw, which is the exact quotient
            \* or, at an exact integer, possibly just below it
            /\ AllocRaw[i].floored * sum_totals(alloc.totals)
                    <= alloc.totals[i].weighted_tons * alloc.total_heats
            /\ (AllocRaw[i].floored + 1) * sum_totals(alloc.totals)
                    >= alloc.totals[i].weighted_tons * alloc.total_heats
            /\ AllocExtra(i) \in {0, 1}
        /\ Cardinality({i \in 1..Len(alloc.totals) : AllocExtra(i) = 1})
                = leftover_heats(AllocRaw, alloc.total_heats)
        /\ \A i, j \in 1..Len(alloc.totals) :
            (AllocExtra(i) = 1 /\ AllocExtra(j) = 0) =>
                \/ AllocRaw[i].remainder > AllocRaw[j].remainder
                \/ AllocRaw[i].remainder = AllocRaw[j].remainder /\ i < j

\* a tie of remainders that the enumeration order decides: the earlier grade
\* gets the extra heat, the later one does not
C3_Witness ==
    /\ Proportional
    /\ \E i, j \in 1..Len(alloc.totals) :
        /\ i < j
        /\ AllocRaw[i].remainder = AllocRaw[j].remainder
        /\ AllocExtra(i) = 1
        /\ AllocExtra(j) = 0

\* C4: equal split.  With n >= 1 grades and a zero group weighted total every
\* grade gets exactly T // n heats and the T mod n heats go to no grade
\* (T=10, n=3 gives 3, 3, 3).
C4_Example ==
    LET r == process_totals(<<[name |-> "A", weighted_tons |-> 0],
                              [name |-> "B", weighted_tons |-> 0],
                              [name |-> "C", weighted_tons |-> 0]>>,
                            "Rebar", 10, [w \in {0} |-> 0])
    IN  Len(r) = 3 /\ \A i \in 1..3 : r[i].heats = 3

C4_EqualSplitDropsRemainder ==
    /\ C4_Example
    /\ EqualSplit =>
        /\ Len(alloc.results) = Len(alloc.totals)
        /\ \A i \in 1..Len(alloc.totals) :
            /\ alloc.results[i].grade = alloc.totals[i].name
            /\ alloc.results[i].heats = alloc.total_heats \div Len(alloc.totals)
        /\ total_heats_of(alloc.results)
                = alloc.total_heats - (alloc.total_heats % Len(alloc.totals))

\* an equal split that drops heats
C4_Witness ==
    /\ EqualSplit
    /\ Len(alloc.totals) = 3
    /\ total_heats_of(alloc.results) < alloc.total_heats

\* C5: every heats value of the allocation is >= 0 when heats and tons are
\* >= 0, on the proportional and on the equal-split path.
C5_HeatsNonNegative ==
    alloc.done => \A i \in 1..Len(alloc.results) : alloc.results[i].heats >= 0

\* a proportional run in which a grade without tons stays at zero while the
\* floors fall short of T
C5_Witness ==
    /\ Proportional
    /\ sum_floored(AllocRaw) < alloc.total_heats
    /\ \E i \in 1..Len(alloc.results) : alloc.results[i].heats = 0

\* C6: recency weighting.  The weight is 3, 2, 1 at distance 1, 2, 3 and 1 at
\* every other distance; a grade's weighted total is the sum of tons * weight
\* over its records; 10 tons one month back and 30 tons three months back both
\* give 30.
MonthIndex(d) == d.year * 12 + d.month

Distance(production_month, target_month) ==
    MonthIndex(target_month) - MonthIndex(production_month)

ClaimedWeight(distance) ==
    CASE distance = 1 -> 3
      [] distance = 2 -> 2
      [] distance = 3 -> 1
      [] OTHER -> 1

RECURSIVE ClaimedTotal(_, _, _)
ClaimedTotal(history, target_month, name) ==
    IF history = <<>> THEN 0
    ELSE (IF Head(history).name = name
          THEN Head(history).tons
                * ClaimedWeight(Distance(Head(history).month, target_month))
          ELSE 0)
         + ClaimedTotal(Tail(history), target_month, name)

C6_RecencyWeighting ==
    weigh.done =>
        /\ \A i \in 1..Len(weigh.history) :
            get_month_weight(weigh.history[i].month, weigh.target_month)
                = ClaimedWeight(Distance(weigh.history[i].month, weigh.target_month))
        /\ {weigh.totals[k].name : k \in 1..Len(weigh.totals)}
                = {weigh.history[i].name : i \in 1..Len(weigh.history)}
        /\ \A k, l \in 1..Len(weigh.totals) :
                weigh.totals[k].name = weigh.totals[l].name => k = l
        /\ \A k \in 1..Len(weigh.totals) :
                weigh.totals[k].weighted_tons
                    = ClaimedTotal(weigh.history, weigh.target_month,
                                   weigh.totals[k].name)
        /\ (/\ weigh.target_month = Sep2024
            /\ weigh.history = <<[name |-> "A", month |-> Date(2024, 8), tons |-> 10],
                                 [name |-> "B", month |-> Date(2024, 6), tons |-> 30]>>)
            => weigh.totals = <<[name |-> "A", weighted_tons |-> 30],
                                [name |-> "B", weighted_tons |-> 30]>>

\* 10 tons one month back and 30 tons three months back, weighted
C6_Witness ==
    /\ weigh.done
    /\ weigh.target_month = Sep2024
    /\ weigh.history = <<[name |-> "A", month |-> Date(2024, 8), tons |-> 10],
                         [name |-> "B", month |-> Date(2024, 6), tons |-> 30]>>
    /\ weigh.totals = <<[name |-> "A", weighted_tons |-> 30],
                        [name |-> "B", weighted_tons |-> 30]>>

\* ------------------------------------------------ properties of the service
Answered == calc.state = "done" /\ calc.status_code = 200

GroupIdsOf(forecasts) == {forecasts[i].product_group_id : i \in 1..Len(forecasts)}

RECURSIVE group_forecast_heats(_, _)
group_forecast_heats(forecasts, group_id) ==
    IF forecasts = <<>> THEN 0
    ELSE (IF Head(forecasts).product_group_id = group_id
          THEN Head(forecasts).heats ELSE 0)
         + group_forecast_heats(Tail(forecasts), group_id)

RECURSIVE group_result_heats(_, _)
group_result_heats(entries, group_name) ==
    IF entries = <<>> THEN 0
    ELSE (IF Head(entries).product_group = group_name THEN Head(entries).heats ELSE 0)
         + group_result_heats(Tail(entries), group_name)

PathsOf(group_id) ==
    {calc.parts[k].path :
        k \in {k \in 1..Len(calc.parts) :
                calc.parts[k].forecast.product_group_id = group_id}}

\* C2 as claimed: for every product group with a forecast entry for the target
\* month, the heats calculate returns for the group are non-negative and sum
\* to the group's forecast heats.
C2_EveryGroupSumsToForecast ==
    Answered =>
        \A g \in GroupIdsOf(calc.forecasts) :
            /\ group_result_heats(calc.results, db.product_groups[g].name)
                    = group_forecast_heats(calc.forecasts, g)
            /\ \A i \in 1..Len(calc.results) : calc.results[i].heats >= 0

\* C2 as amended: for every product group with a forecast entry for the target
\* month whose history has a positive weighted total (the proportional path),
\* the heats calculate returns for the group are non-negative and sum to the
\* group's forecast heats.
C2_ProportionalGroupsSumToForecast ==
    Answered =>
        \A g \in GroupIdsOf(calc.forecasts) :
            PathsOf(g) = {"proportional"} =>
                /\ group_result_heats(calc.results, db.product_groups[g].name)
                        = group_forecast_heats(calc.forecasts, g)
                /\ \A i \in 1..Len(calc.results) :
                        calc.results[i].product_group = db.product_groups[g].name
                            => calc.results[i].heats >= 0

\* a group of two grades with different weighted totals, split proportionally
C2_Witness ==
    /\ Answered
    /\ \E g \in GroupIdsOf(calc.forecasts) :
        /\ PathsOf(g) = {"proportional"}
        /\ group_forecast_heats(calc.forecasts, g) = 3
        /\ \E i, j \in 1..Len(calc.results) :
            /\ calc.results[i].product_group = db.product_groups[g].name
            /\ calc.results[j].product_group = db.product_groups[g].name
            /\ calc.results[i].heats = 2
            /\ calc.results[j].heats = 1

\* C7: a product group with a forecast entry for the target month and no grade
\* with any history record contributes no entry to the output of calculate.
GroupHasHistory(d, group_id) ==
    \E i \in 1..Len(d.production_history) :
        d.steel_grades[d.production_history[i].steel_grade_id].product_group_id
            = group_id

C7_GroupWithoutHistorySkipped ==
    (Answered /\ calc.seen = {db}) =>
        \A g \in GroupIdsOf(calc.forecasts) :
            ~GroupHasHistory(db, g) =>
                \A i \in 1..Len(calc.results) :
                    calc.results[i].product_group # db.product_groups[g].name

\* two groups with a forecast entry, one of them without history: the output
\* has entries, none of them for that group
C7_Witness ==
    /\ Answered
    /\ calc.seen = {db}
    /\ calc.results # <<>>
    /\ \E g \in GroupIdsOf(calc.forecasts) :
        /\ ~GroupHasHistory(db, g)
        /\ \A i \in 1..Len(calc.results) :
                calc.results[i].product_group # db.product_groups[g].name

\* C8: a calculate call that runs concurrently with an upload computes its
\* result from the complete old or the complete new record set, never from a
\* mix of the two.
RECURSIVE Outcomes(_, _, _)
Outcomes(d, forecasts, target_month) ==
    IF forecasts = <<>> THEN {<<>>}
    ELSE {a \o b :
            a \in {process_product_group(d, Head(forecasts), target_month, fp) :
                    fp \in [TotalValues(grade_weighted_totals(
                                query_history(d, Head(forecasts).product_group_id),
                                target_month)) -> Noise]},
            b \in Outcomes(d, Tail(forecasts), target_month)}

\* what calculate returns when it runs on the committed rows d alone
CalculateOn(d, target_month) ==
    Outcomes(d, query_forecasts(d.monthly_forecasts, target_month), target_month)

C8_ReadsOldOrNew ==
    Answered =>
        \E d \in calc.seen : calc.results \in CalculateOn(d, calc.target_month)

\* C9: when a step of an upload fails after the delete, the rollback leaves the
\* committed rows of every kind as they were before the upload, and the caller
\* gets 500, not a success.
C9_FailedUploadRollsBack ==
    /\ (up.state = "done" /\ up.status_code = 500) => db = up.before
    /\ (up.state = "done" /\ up.processed < Len(up.records)) =>
            up.status_code = 500 /\ db = up.before

\* a monthly-forecast upload over stored forecasts that raised in its second
\* pass, after the delete and one insert
C9_Witness ==
    /\ up.state = "done"
    /\ up.status_code = 500
    /\ up.kind = "monthly-forecast"
    /\ up.processed = 1
    /\ Len(up.records) = 2
    /\ up.before.monthly_forecasts # <<>>
    /\ db.monthly_forecasts = up.before.monthly_forecasts

\* C10: after a successful monthly-forecast (production-history) upload the
\* stored rows of that kind are exactly the records of the upload, and the
\* rows of the other kinds are unchanged.
ForecastRowsAre(d, records) ==
    /\ Len(d.monthly_forecasts) = Len(records)
    /\ \A i \in 1..Len(records) :
        /\ d.product_groups[d.monthly_forecasts[i].product_group_id].name
                = records[i].product_group
        /\ d.monthly_forecasts[i].month = records[i].month
        /\ d.monthly_forecasts[i].heats = records[i].heats

HistoryRowsAre(d, records) ==
    /\ Len(d.production_history) = Len(records)
    /\ \A i \in 1..Len(records) :
        /\ d.steel_grades[d.production_history[i].steel_grade_id].name
                = records[i].grade
        /\ d.production_history[i].month = records[i].month
        /\ d.production_history[i].tons = records[i].tons

C10_UploadReplaces ==
    (up.state = "done" /\ up.status_code = 200) =>
        /\ up.kind = "monthly-forecast" =>
            /\ ForecastRowsAre(db, up.records)
            /\ db.production_history = up.before.production_history
            /\ db.daily_schedules = up.before.daily_schedules
        /\ up.kind = "production-history" =>
            /\ HistoryRowsAre(db, up.records)
            /\ db.monthly_forecasts = up.before.monthly_forecasts
            /\ db.daily_schedules = up.before.daily_schedules

\* a production-history upload of one record over two stored history rows
C10_Witness ==
    /\ up.state = "done"
    /\ up.status_code = 200
    /\ up.kind = "production-history"
    /\ Len(up.before.production_history) = 2
    /\ Len(up.records) = 1
    /\ Len(db.production_history) = 1
    /\ db.monthly_forecasts # <<>>

\* C11: after any sequence of monthly-forecast uploads the store holds at most
\* one MonthlyForecast row per (product group, month), so that calculate runs
\* the allocator at most once per product group for a target month.
OneForecastPerGroupMonth(d) ==
    \A i, j \in 1..Len(d.monthly_forecasts) :
        (/\ d.monthly_forecasts[i].product_group_id
                = d.monthly_forecasts[j].product_group_id
         /\ d.monthly_forecasts[i].month = d.monthly_forecasts[j].month) => i = j

C11_OneForecastPerGroupMonth ==
    /\ OneForecastPerGroupMonth(db)
    /\ Answered =>
        \A k, l \in 1..Len(calc.parts) :
            calc.parts[k].forecast.product_group_id
                = calc.parts[l].forecast.product_group_id => k = l

\* C12: first write wins.  A steel grade keeps the product group it was
\* created with through every later upload, also through a production-history
\* upload that lists it under another group, and calculate returns its heats
\* under the original group.
GroupNameOf(d, grade) ==
    d.product_groups[d.steel_grades[id_of_name(d.steel_grades, grade)].product_group_id].name

grades_kept(old, new) ==
    /\ Len(new.steel_grades) >= Len(old.steel_grades)
    /\ \A i \in 1..Len(old.steel_grades) : new.steel_grades[i] = old.steel_grades[i]
    /\ Len(new.product_groups) >= Len(old.product_groups)
    /\ \A i \in 1..Len(old.product_groups) : new.product_groups[i] = old.product_groups[i]

C12_FirstWriteWins ==
    /\ up.state = "done" => grades_kept(up.before, db)
    /\ up.state = "open" => grades_kept(db, up.session)
    /\ Answered =>
        \A i \in 1..Len(calc.results) :
            /\ has_name(db.steel_grades, calc.results[i].grade)
            /\ GroupNameOf(db, calc.results[i].grade) = calc.results[i].product_group

\* a production-history upload lists a stored grade under another group; the
\* forecast computed afterwards returns the grade under its original group
C12_Witness ==
    /\ up.state = "done" /\ up.status_code = 200
    /\ up.kind = "production-history"
    /\ Answered /\ calc.seen = {db}
    /\ \E r \in 1..Len(up.records), i \in 1..Len(calc.results) :
        /\ has_name(up.before.steel_grades, up.records[r].grade)
        /\ GroupNameOf(up.before, up.records[r].grade) # up.records[r].product_group
        /\ calc.results[i].grade = up.records[r].grade
        /\ calc.results[i].product_group = GroupNameOf(up.before, up.records[r].grade)

\* C13: after any sequence of successful and failed uploads every stored
\* ProductionHistory row references an existing SteelGrade, every SteelGrade
\* references one existing ProductGroup, and no two ProductGroups and no two
\* SteelGrades share a name.
unique_names(table) ==
    \A i, j \in 1..Len(table) : table[i].name = table[j].name => i = j

integrity(d) ==
    /\ \A i \in 1..Len(d.production_history) :
            d.production_history[i].steel_grade_id \in 1..Len(d.steel_grades)
    /\ \A i \in 1..Len(d.steel_grades) :
            d.steel_grades[i].product_group_id \in 1..Len(d.product_groups)
    /\ unique_names(d.product_groups)
    /\ unique_names(d.steel_grades)

C13_ReferentialIntegrity == integrity(db)

\* a production-history upload that created a grade in its session and then
\* failed, over stored history rows
C13_Witness ==
    /\ up.state = "done" /\ up.status_code = 500
    /\ up.kind = "production-history"
    /\ Len(session_after(up.before, up.kind, up.records, up.processed).steel_grades)
            > Len(db.steel_grades)
    /\ db.production_history # <<>>
    /\ integrity(db)

\* C14: month filter.  calculate(target_month) returns entries only for
\* product groups with a MonthlyForecast row whose month is target_month, and
\* processes exactly those rows; a group whose rows are all for other months is
\* absent, and the answer is still a success.
RowsOfMonth(d, month) ==
    {j \in 1..Len(d.monthly_forecasts) : d.monthly_forecasts[j].month = month}

C14_MonthFilter ==
    (Answered /\ calc.seen = {db}) =>
        /\ \A i \in 1..Len(calc.results) :
            \E j \in RowsOfMonth(db, calc.target_month) :
                db.product_groups[db.monthly_forecasts[j].product_group_id].name
                    = calc.results[i].product_group
        /\ \A k \in 1..Len(calc.parts) :
                calc.parts[k].forecast.month = calc.target_month
        /\ Len(calc.parts) = Cardinality(RowsOfMonth(db, calc.target_month))

\* a group with history whose only forecast row is for another month is
\* absent from a result that has entries of another group
C14_Witness ==
    /\ Answered /\ calc.seen = {db}
    /\ calc.results # <<>>
    /\ \E j \in 1..Len(db.monthly_forecasts) :
        LET g == db.monthly_forecasts[j].product_group_id
        IN  /\ db.monthly_forecasts[j].month # calc.target_month
            /\ \A l \in RowsOfMonth(db, calc.target_month) :
                    db.monthly_forecasts[l].product_group_id # g
            /\ GroupHasHistory(db, g)
            /\ \A i \in 1..Len(calc.results) :
                    calc.results[i].product_group # db.product_groups[g].name

C16_RejectedUploadKeepsRows ==
    /\ (up.state = "done" /\ up.status_code = 400) =>
        /\ db = up.before
        /\ up.detail \in {"Invalid file type", "No valid records"}
    /\ (up.state \in {"open", "done"} /\ up.records = <<>>) => up.status_code = 400
    /\ \A i \in 1..Len(up.log) :
            up.log[i].records = <<>> <=> up.log[i].status_code = 400

\* a monthly-forecast upload without records, rejected over stored forecasts
C16_Witness ==
    /\ up.state = "done" /\ up.status_code = 400
    /\ up.kind = "monthly-forecast"
    /\ up.detail = "No valid records"
    /\ up.before.monthly_forecasts # <<>>
    /\ db.monthly_forecasts = up.before.monthly_forecasts

\* C17: the forecast endpoint answers every (year, month) other than
\* (2024, 9) with 400 and a "not available" detail, without running the
\* forecaster, whatever is stored; it answers (2024, 9) with 200 and a list,
\* also when the list is empty.
C17_OnlySeptember2024 ==
    /\ calc.state = "running" => calc.target_month = Date(2024, 9)
    /\ calc.state = "done" =>
        IF calc.target_month = Date(2024, 9)
        THEN /\ calc.status_code = 200
             /\ calc.detail = ""
             /\ calc.seen # {}
        ELSE /\ calc.status_code = 400
             /\ calc.detail = "not available"
             /\ calc.seen = {}
             /\ calc.parts = <<>>
             /\ calc.results = <<>>

\* a request for 2024-10 rejected although a forecast row and history for it
\* are stored
C17_Witness ==
    /\ calc.state = "done" /\ calc.status_code = 400
    /\ calc.target_month = Date(2024, 10)
    /\ \E j \in 1..Len(db.monthly_forecasts) :
        /\ db.monthly_forecasts[j].month = Date(2024, 10)
        /\ GroupHasHistory(db, db.monthly_forecasts[j].product_group_id)

\* C18: group independence.  The entries calculate returns for a product
\* group are those it returns on the store reduced to that group's forecast
\* rows and the history rows of that group's grades: the rows of other groups
\* do not change them.
RECURSIVE keep_forecasts(_, _)
keep_forecasts(rows, group_id) ==
    IF rows = <<>> THEN <<>>
    ELSE (IF Head(rows).product_group_id = group_id THEN <<Head(rows)>> ELSE <<>>)
         \o keep_forecasts(Tail(rows), group_id)

RECURSIVE keep_history(_, _, _)
keep_history(rows, steel_grades, group_id) ==
    IF rows = <<>> THEN <<>>
    ELSE (IF steel_grades[Head(rows).steel_grade_id].product_group_id = group_id
          THEN <<Head(rows)>> ELSE <<>>)
         \o keep_history(Tail(rows), steel_grades, group_id)

only_group(d, group_id) ==
    [d EXCEPT !.monthly_forecasts = keep_forecasts(@, group_id),
              !.production_history = keep_history(@, d.steel_grades, group_id)]

RECURSIVE entries_of_group(_, _)
entries_of_group(entries, group_name) ==
    IF entries = <<>> THEN <<>>
    ELSE (IF Head(entries).product_group = group_name THEN <<Head(entries)>> ELSE <<>>)
         \o entries_of_group(Tail(entries), group_name)

RECURSIVE parts_of_group(_, _)
parts_of_group(parts, group_id) ==
    IF parts = <<>> THEN <<>>
    ELSE (IF Head(parts).forecast.product_group_id = group_id
          THEN Head(parts).entries ELSE <<>>)
         \o parts_of_group(Tail(parts), group_id)

C18_GroupIndependence ==
    (Answered /\ calc.seen = {db}) =>
        /\ \A k \in 1..Len(calc.parts) :
            calc.parts[k].entries
                = process_product_group(
                    only_group(db, calc.parts[k].forecast.product_group_id),
                    calc.parts[k].forecast, calc.target_month, calc.parts[k].fp)
        /\ \A g \in 1..Len(db.product_groups) :
            entries_of_group(calc.results, db.product_groups[g].name)
                = parts_of_group(calc.parts, g)

\* two groups with forecast rows and history, both with entries in the result
C18_Witness ==
    /\ Answered /\ calc.seen = {db}
    /\ \E k, l \in 1..Len(calc.parts) :
        /\ calc.parts[k].forecast.product_group_id
                # calc.parts[l].forecast.product_group_id
        /\ calc.parts[k].entries # <<>>
        /\ calc.parts[l].entries # <<>>
        /\ only_group(db, calc.parts[k].forecast.product_group_id) # db

\* C19 as claimed: quota rule.  In the proportional path leftover =
\* T - sum(floor(raw)) satisfies 0 <= leftover < number of grades, and every
\* grade's heats is floor(raw) or floor(raw) + 1.
AllocLeftover == leftover_heats(AllocRaw, alloc.total_heats)

AllocBelow(i) ==
    raw_below(alloc.totals[i].weighted_tons, sum_totals(alloc.totals),
              alloc.total_heats, alloc.fp)

C19_QuotaRule ==
    Proportional =>
        /\ 0 <= AllocLeftover
        /\ AllocLeftover < Len(alloc.totals)
        /\ \A i \in 1..Len(alloc.totals) : AllocExtra(i) \in {0, 1}

\* C19 as amended: in the proportional path 0 <= leftover <= number of
\* grades, with leftover = number of grades only when the float raw of every
\* grade lies just below an integer; every grade's heats is floor(raw) or
\* floor(raw) + 1.
C19_QuotaRuleUpToAllGrades ==
    Proportional =>
        /\ 0 <= AllocLeftover
        /\ AllocLeftover <= Len(alloc.totals)
        /\ AllocLeftover = Len(alloc.totals) =>
                \A i \in 1..Len(alloc.totals) : AllocBelow(i)
        /\ \A i \in 1..Len(alloc.totals) : AllocExtra(i) \in {0, 1}

\* weighted totals 1, 16, 32 and T = 49: the float raw of every grade lies just
\* below its integer share, the floors 0, 15, 31 fall short by three heats and
\* every grade gets one extra heat
C19_Witness ==
    /\ Proportional
    /\ alloc.total_heats = 49
    /\ Len(alloc.totals) = 3
    /\ \A i \in 1..3 : AllocRaw[i].floored = alloc.totals[i].weighted_tons - 1
    /\ AllocLeftover = 3
    /\ \A i \in 1..3 : AllocExtra(i) = 1
    /\ total_heats_of(alloc.results) = alloc.total_heats

\* C20: two concurrent uploads of the same kind end with the stored rows of
\* that kind being exactly the records of one of the two uploads, or, when
\* none of them succeeded, the rows stored before; never a union or a mix.
RowsAre(d, kind, records) ==
    CASE kind = "monthly-forecast" -> ForecastRowsAre(d, records)
      [] kind = "production-history" -> HistoryRowsAre(d, records)

RowsOf(d, kind) ==
    CASE kind = "monthly-forecast" -> d.monthly_forecasts
      [] kind = "production-history" -> d.production_history

Succeeded == {i \in 1..Len(up.log) : up.log[i].status_code = 200}

FloatProportional == alloc.done /\ float_sum(alloc.totals, alloc.summation) > 0

FloatRaw ==
    float_allocations(alloc.totals, alloc.total_heats,
                      float_sum(alloc.totals, alloc.summation))

\* C21: order preservation within a group: in the proportional path, a grade
\* with a strictly larger weighted total than another grade of the group
\* receives at least as many heats as that grade.
C21_OrderPreserved ==
    FloatProportional =>
        \A i, j \in 1..Len(alloc.totals) :
            alloc.totals[i].weighted_tons > alloc.totals[j].weighted_tons
                => HeatsOf(alloc.results, alloc.totals[i].name)
                        >= HeatsOf(alloc.results, alloc.totals[j].name)

\* What the allocator does keep: raw never decreases with the weighted total,
\* and a grade with the larger total gets fewer heats only when both raw
\* values are the same float and the other grade comes first in the dict;
\* it is then one heat short.
FloatOrderUpToEqualRaw ==
    FloatProportional =>
        \A i, j \in 1..Len(alloc.totals) :
            alloc.totals[i].weighted_tons > alloc.totals[j].weighted_tons
                => /\ FloatRaw[i].raw >= FloatRaw[j].raw
                   /\ \/ HeatsOf(alloc.results, alloc.totals[i].name)
                            >= HeatsOf(alloc.results, alloc.totals[j].name)
                      \/ /\ FloatRaw[i].raw = FloatRaw[j].raw
                         /\ j < i
                         /\ HeatsOf(alloc.results, alloc.totals[j].name)
                                = HeatsOf(alloc.results, alloc.totals[i].name) + 1

\* the heats of a narrow float run sum to the target
FloatSumsToTarget ==
    FloatProportional => total_heats_of(alloc.results) = alloc.total_heats

\* C22: for a group that is not skipped, on the proportional and on the equal
\* path, the output has exactly one entry per distinct grade of the group with
\* at least one history record (several records of a grade give one entry),
\* and no entry for a grade without history or of another group.
GradesWithHistory(d, group_id) ==
    {d.steel_grades[d.production_history[i].steel_grade_id].name :
        i \in {i \in 1..Len(d.production_history) :
                d.steel_grades[d.production_history[i].steel_grade_id].product_group_id
                    = group_id}}

C22_OneEntryPerGradeWithHistory ==
    (Answered /\ calc.seen = {db}) =>
        \A k \in 1..Len(calc.parts) :
            LET entries == calc.parts[k].entries
                grades == GradesWithHistory(db, calc.parts[k].forecast.product_group_id)
            IN  /\ calc.parts[k].path = "skipped" <=> grades = {}
                /\ {entries[i].grade : i \in 1..Len(entries)} = grades
                /\ Len(entries) = Cardinality(grades)
                /\ \A i \in 1..Len(entries) :
                        entries[i].product_group
                            = db.product_groups[
                                calc.parts[k].forecast.product_group_id].name

\* a group with two history records of one grade gets one entry, and a stored
\* grade of another group, without history, gets none
C22_Witness ==
    /\ Answered /\ calc.seen = {db}
    /\ \E k \in 1..Len(calc.parts) :
        LET g == calc.parts[k].forecast.product_group_id
        IN  /\ Len(query_history(db, g)) = 2
            /\ Len(calc.parts[k].entries) = 1
            /\ \E j \in 1..Len(db.steel_grades) :
                /\ db.steel_grades[j].product_group_id # g
                /\ db.steel_grades[j].product_group_id
                        \in GroupIdsOf(calc.forecasts)
                /\ \A i \in 1..Len(calc.results) :
                        calc.results[i].grade # db.steel_grades[j].name

\* C23: in the proportional path a grade whose weighted total is zero gets
\* exactly 0 heats; an extra heat only goes to a grade whose remainder is
\* strictly positive.
C23_ZeroTotalGetsNothing ==
    Proportional =>
        /\ \A i \in 1..Len(alloc.totals) :
            alloc.totals[i].weighted_tons = 0
                => HeatsOf(alloc.results, alloc.totals[i].name) = 0
        /\ \A i \in 1..Len(alloc.totals) :
            AllocExtra(i) = 1 => AllocRaw[i].remainder > 0

\* a grade without tons enumerated first stays at zero while the leftover
\* heats go to the grades after it
C23_Witness ==
    /\ Proportional
    /\ Len(alloc.totals) = 3
    /\ alloc.totals[1].weighted_tons = 0
    /\ AllocLeftover = 2
    /\ HeatsOf(alloc.results, alloc.totals[1].name) = 0
    /\ AllocExtra(2) = 1 /\ AllocExtra(3) = 1

====
